---- MODULE Spec2Model ----
(***************************************************************************)
(* A model of laminage/hec/base.py: BaseManager.run_distributed_simulations *)
(* (the batch orchestrator), BaseManager.run_partial_base (one batch unit:  *)
(* stage, run, extract, delete) and BaseManager.run_sim (the run invoker).  *)
(*                                                                         *)
(* A file name "<digits>.<ext>" is the record [stem, ext]; a stem is the    *)
(* record [neg, w, v]: an optional minus sign and a string of w decimal     *)
(* digits whose value is v (0 <= v < 10^w).  The pair (w, v) determines the *)
(* digit string and the digit string determines the pair, so int() and      *)
(* str.format() are modelled on it by what they do to the string: int()     *)
(* drops the leading zeros, "{:07d}" pads again.                            *)
(***************************************************************************)
EXTENDS Integers, Sequences, FiniteSets, TLC

VARIABLES
    dss_dir,     \* the input directory: its files, in the order the OS lists them
    template,    \* the reference model base (self.model_base_folder)
    env,         \* facts of the host: the executable, HOME, the wine drive, ...
    submitted,   \* run_distributed_simulations has returned its futures
    units,       \* lazy_results: one [chunk, output_path] per delayed call
    pc,          \* pc[i]: the position of unit i inside run_partial_base
    base,        \* base[i]: the directory tree at unit i's output_path
    hist,        \* hist[i]: the steps unit i has completed, in order
    writes,      \* the set of [path, unit]: every path a unit has written
    sim,         \* the direct run_sim call: its argument and its outcome
    reads        \* reads[i]: the calls of _read_dss_values unit i has made

vars == <<dss_dir, template, env, submitted, units, pc, base, hist, writes, sim,
          reads>>

-----------------------------------------------------------------------------
(* Bounds of the model *)

\* the largest pool: two full chunks and one file more
MaxFiles == 201
\* the largest hole in the numbering of a pool
MaxGap == 1
\* the files past a full chunk in the pools run concurrently
MaxExtra == 1

(* Program constants *)

\* dss_list[x:x + 100], range(0, len(dss_list), 100)
CHUNK == 100
\* "{:07d}".format(...)
PadWidth == 7
\* "b{:06d}".format(idx + 1)
BatchWidth == 6
\* range(1, 101)
LastAlternative == 100

-----------------------------------------------------------------------------
(* Arithmetic and strings *)

Max(a, b) == IF a >= b THEN a ELSE b
Min(a, b) == IF a <= b THEN a ELSE b

RECURSIVE Pow10(_)
Pow10(n) == IF n = 0 THEN 1 ELSE 10 * Pow10(n - 1)

\* len(str(x)) for x >= 0
RECURSIVE NumDigits(_)
NumDigits(x) == IF x < 10 THEN 1 ELSE 1 + NumDigits(x \div 10)

Stem(w, v) == [neg |-> FALSE, w |-> w, v |-> v]
File(stem, ext) == [stem |-> stem, ext |-> ext]

\* "{:0<width>d}".format(x): zero-padded to at least width characters, the
\* minus sign of a negative number counted in the width
FormatOffByOne(width, x) ==
    IF x >= 0 THEN [neg |-> FALSE, w |-> Max(width - 1, NumDigits(x)), v |-> x]
              ELSE [neg |-> TRUE, w |-> Max(width - 2, NumDigits(-x)), v |-> -x]
Format(width, x) ==
    IF x >= 0 THEN [neg |-> FALSE, w |-> Max(width, NumDigits(x)), v |-> x]
              ELSE [neg |-> TRUE, w |-> Max(width - 1, NumDigits(-x)), v |-> -x]

\* int(os.path.basename(f).split('.')[0])
ParseInt(f) == IF f.stem.neg THEN -f.stem.v ELSE f.stem.v

\* Python's string order on two digit strings followed by '.': the first
\* differing digit decides, and a string that is a prefix of the other comes
\* first ('.' sorts before every digit)
DigitsLess(a, b) ==
    LET m == Min(a.w, b.w)
        pa == a.v \div Pow10(a.w - m)
        pb == b.v \div Pow10(b.w - m)
    IN IF pa # pb THEN pa < pb ELSE a.w < b.w

\* the order of sorted() on the paths of one directory with one extension
\* ('-' sorts before '.' and the digits)
PathLess(f, g) ==
    IF f.stem.neg # g.stem.neg THEN f.stem.neg ELSE DigitsLess(f.stem, g.stem)

RECURSIVE Merge(_, _)
Merge(s, t) ==
    IF s = <<>> THEN t
    ELSE IF t = <<>> THEN s
    ELSE IF PathLess(t[1], s[1]) THEN <<t[1]>> \o Merge(s, Tail(t))
    ELSE <<s[1]>> \o Merge(Tail(s), t)

\* sorted(list)
RECURSIVE sorted(_)
sorted(s) ==
    IF Len(s) <= 1 THEN s
    ELSE LET h == Len(s) \div 2
         IN Merge(sorted(SubSeq(s, 1, h)), sorted(SubSeq(s, h + 1, Len(s))))

\* glob.glob(os.path.join(dir, '*.dss')) on a directory listing
GlobDss(listing) == SelectSeq(listing, LAMBDA f : f.ext = "dss")

\* list[a:b] with 0 <= a <= b
Slice(s, a, b) == SubSeq(s, a + 1, Min(b, Len(s)))

\* list(range(x, stop, step))
RECURSIVE Range(_, _, _)
Range(x, stop, step) ==
    IF x >= stop THEN <<>> ELSE <<x>> \o Range(x + step, stop, step)

-----------------------------------------------------------------------------
(* run_distributed_simulations *)

\* chunks = [dss_list[x:x + 100] for x in range(0, len(dss_list), 100)]
chunksOverlapping(dss_list) ==
    LET xs == Range(0, Len(dss_list), CHUNK - 1)
    IN [k \in 1..Len(xs) |-> Slice(dss_list, xs[k], xs[k] + CHUNK)]
chunks(dss_list) ==
    LET xs == Range(0, Len(dss_list), CHUNK)
    IN [k \in 1..Len(xs) |-> Slice(dss_list, xs[k], xs[k] + CHUNK)]

\* os.path.join(output_path, "b{:06d}".format(idx + 1)), idx counted from 0
BatchDirSameName(idx) == [prefix |-> "b", num |-> Format(BatchWidth, 1)]
BatchDir(idx) == [prefix |-> "b", num |-> Format(BatchWidth, idx + 1)]

\* lazy_results = [delayed(run_partial_base)(chunk, join(...), routing_config)
\*                 for idx, chunk in enumerate(chunks)]
lazy_results(dir) ==
    LET cs == chunks(sorted(GlobDss(dir)))
    IN [k \in 1..Len(cs) |-> [chunk |-> cs[k], output_path |-> BatchDir(k - 1)]]

-----------------------------------------------------------------------------
(* run_partial_base: staging the chunk *)

\* a directory tree at an output_path that does not exist
NoTree == [exists |-> FALSE, shared |-> {}, study |-> FALSE,
           simulation |-> "none"]

\* shutil.copy2(src, folder/name): a file of that name is overwritten
CopyInto(folder, name, origin) ==
    {e \in folder : e.name # name} \cup {[name |-> name, from |-> origin]}

\* min_sim_number = int(os.path.basename(dss_list[0]).split('.')[0]) - 1
min_sim_numberNoShift(dss_list) == ParseInt(dss_list[1])
min_sim_number(dss_list) == ParseInt(dss_list[1]) - 1

\* "{:07d}".format(int(...) - min_sim_number) + '.dss'
StagedName(dss_filename, dss_list) ==
    File(Format(PadWidth, ParseInt(dss_filename) - min_sim_number(dss_list)), "dss")

\* [shutil.copy2(dss_filename, join(shared, <staged name>)) for dss_filename in dss_list]
\* the folder after the copies, made in list order: under each staged name
\* lies the copy of the last file of the list that was given that name
StageFiles(folder, dss_list) ==
    LET n == Len(dss_list)
        name == [j \in 1..n |-> StagedName(dss_list[j], dss_list)]
        names == {name[j] : j \in 1..n}
        last == IF Cardinality(names) = n THEN 1..n
                ELSE {j \in 1..n : \A k \in (j + 1)..n : name[k] # name[j]}
    IN {e \in folder : e.name \notin names}
         \cup {[name |-> name[j], from |-> [kind |-> "chunk", of |-> dss_list[j]]] :
                  j \in last}

\* alternative_names = ["%07d.dss" % (i,) for i in range(1, 101)]
alternative_names ==
    [i \in 1..LastAlternative |-> File(Format(PadWidth, i), "dss")]

\* copy_tree(self.model_base_folder, output_path): the reference tree's files
\* are copied over what the destination already holds
RECURSIVE CopyAll(_, _)
CopyAll(folder, names) ==
    IF names = {} THEN folder
    ELSE LET f == CHOOSE g \in names : TRUE
         IN CopyAll(CopyInto(folder, f, [kind |-> "template", of |-> f]),
                    names \ {f})
copy_tree(ref, tree) ==
    [exists |-> TRUE,
     shared |-> CopyAll(tree.shared, ref.shared),
     study |-> tree.study \/ ref.study,
     simulation |-> "template"]

\* [os.remove(f) for f in glob.glob(os.path.join(..., 'shared', '*.dss'))]
\* (the names of the model do not begin with a dot, which '*' would skip)
RemoveStaleKeepsAll(folder) == folder
RemoveStale(folder) == {e \in folder : e.name.ext # "dss"}

\* except OSError as e: if e.errno != errno.EEXIST: raise
makedirsHandlerSwallowsAll(errno) == "continue"
makedirsHandler(errno) == IF errno # "EEXIST" THEN "raise" ELSE "continue"

\* shutil.rmtree(output_path, ignore_errors=True): the tree is removed; a
\* removal that fails is skipped silently, and what could not be removed (here
\* the container the run wrote) stays, with the directories that hold it
rmtreeKeepsShared(tree, failed) ==
    [exists |-> TRUE, shared |-> tree.shared, study |-> FALSE, simulation |-> "none"]
rmtree(tree, failed) ==
    IF failed
    THEN [exists |-> TRUE, shared |-> {}, study |-> FALSE,
          simulation |-> tree.simulation]
    ELSE NoTree

\* the files left under a tree's path
Residual(tree) ==
    Cardinality(tree.shared) + (IF tree.study THEN 1 ELSE 0)
        + (IF tree.simulation # "none" THEN 1 ELSE 0)

\* the statements of run_partial_base in program order: the position that
\* follows each
AfterRunBeforeStage(p) ==
    CASE p = "makedirs" -> "copy_tree"
      [] p = "copy_tree" -> "locate"
      [] p = "locate" -> "run_sim"
      [] p = "run_sim" -> "remove"
      [] p = "wine" -> "remove"
      [] p = "remove" -> "stage"
      [] p = "stage" -> "empty"
      [] p = "empty" -> "read"
      [] p = "read" -> "mkresults"
      [] p = "mkresults" -> "extract"
      [] p = "extract" -> "rmtree"
      [] p = "rmtree" -> "done"
After(p) ==
    CASE p = "makedirs" -> "copy_tree"
      [] p = "copy_tree" -> "locate"
      [] p = "locate" -> "remove"
      [] p = "remove" -> "stage"
      [] p = "stage" -> "empty"
      [] p = "empty" -> "read"
      [] p = "read" -> "run_sim"
      [] p = "run_sim" -> "mkresults"
      [] p = "wine" -> "mkresults"
      [] p = "mkresults" -> "extract"
      [] p = "extract" -> "rmtree"
      [] p = "rmtree" -> "done"

-----------------------------------------------------------------------------
(* run_sim *)

\* run_sim(base_path, hec_res_sim_exe_path) on a host e: its effects in
\* order, and how it ends.  The default path is built from os.environ['HOME'];
\* Path(...).resolve(strict=True) raises FileNotFoundError for a path that
\* does not exist; the driver script is copied and the script path cut at
\* 'drive_c' before the command is built and handed to the shell.
run_simNoElse(hec_res_sim_exe_path, e) ==
    LET path == IF hec_res_sim_exe_path = "None" THEN "default"
                ELSE hec_res_sim_exe_path
    IN IF hec_res_sim_exe_path = "None" /\ ~e.home
       THEN [steps |-> <<>>, end |-> "KeyError"]
       ELSE IF ~e.drive_c
       THEN [steps |-> (IF path \in e.files THEN <<>> ELSE <<"print">>) \o <<"copy2">>,
             end |-> "IndexError"]
       ELSE [steps |-> (IF path \in e.files THEN <<>> ELSE <<"print">>)
                         \o <<"copy2", "subprocess.call">>,
             end |-> "return"]
run_sim(hec_res_sim_exe_path, e) ==
    LET path == IF hec_res_sim_exe_path = "None" THEN "default"
                ELSE hec_res_sim_exe_path
    IN IF hec_res_sim_exe_path = "None" /\ ~e.home
       THEN [steps |-> <<>>, end |-> "KeyError"]
       ELSE IF path \notin e.files
       THEN [steps |-> <<"print">>, end |-> "return"]
       ELSE IF ~e.drive_c
       THEN [steps |-> <<"copy2">>, end |-> "IndexError"]
       ELSE [steps |-> <<"copy2", "subprocess.call">>, end |-> "return"]

\* membership in a sequence
In(x, s) == \E k \in 1..Len(s) : s[k] = x

-----------------------------------------------------------------------------
(* The input pools *)

\* the scenario files carry a zero-padded numeric index of one width per pool
\* (spec.md, 3: "identified by a zero-padded numeric index"), so that name
\* order is numeric order (spec.md, 4.4).  A pool is n files numbered from
\* first, with a hole of gapLen indices after its gapAt-th file (gapAt = 0:
\* no hole); a scrambled pool is listed by the OS in descending order with a
\* file of another extension among the containers.
ShortWidth == 4
HighFirst == Pow10(PadWidth) - MaxFiles - MaxGap
GapAfter == {0, 50, 100, 150}

PoolIndex(p, j) ==
    p.first + (j - 1) + (IF p.gapAt > 0 /\ j > p.gapAt THEN p.gapLen ELSE 0)

Listing(p) ==
    LET asc == [j \in 1..p.n |-> File(Stem(p.w, PoolIndex(p, j)), "dss")]
    IN IF p.scrambled
       THEN [j \in 1..p.n |-> asc[p.n + 1 - j]] \o <<File(Stem(p.w, p.first), "csv")>>
       ELSE asc

PoolShapes ==
    {p \in [n : 0..MaxFiles, first : {1, HighFirst}, gapAt : GapAfter,
            gapLen : 1..MaxGap, w : {ShortWidth, PadWidth}, scrambled : BOOLEAN] :
        /\ p.gapAt < p.n
        /\ p.gapAt = 0 => p.gapLen = 1
        /\ p.w = ShortWidth => p.first = 1 /\ ~p.scrambled}

MaxUnits == (MaxFiles + CHUNK - 1) \div CHUNK
AllBatchDirs == {BatchDir(k - 1) : k \in 1..MaxUnits}

NoSim == [pc |-> "idle", arg |-> "None", steps |-> <<>>, end |-> "none"]
BenignEnv == [files |-> {"default"}, home |-> TRUE, drive_c |-> TRUE, results |-> FALSE]
EmptyTemplate == [shared |-> {}, study |-> TRUE]

-----------------------------------------------------------------------------
(* The orchestrator's call, common to the specifications *)

\* run_distributed_simulations: list, sort, partition, build one unit per
\* chunk, submit all of them (client.compute) and return
RunDistributedSimulations ==
    /\ ~submitted
    /\ submitted' = TRUE
    /\ units' = lazy_results(dss_dir)
    /\ pc' = [i \in 1..Len(units') |-> "makedirs"]
    /\ hist' = [i \in 1..Len(units') |-> <<>>]
    /\ reads' = [i \in 1..Len(units') |-> {}]
    /\ UNCHANGED <<dss_dir, template, env, base, writes, sim>>

-----------------------------------------------------------------------------
(* SpecPartition: the partition and the renumbering, over every pool shape *)

InitPartition ==
    /\ \E p \in PoolShapes : dss_dir = Listing(p)
    /\ template = EmptyTemplate
    /\ env = BenignEnv
    /\ submitted = FALSE
    /\ units = <<>>
    /\ pc = <<>>
    /\ hist = <<>>
    /\ base = [d \in AllBatchDirs |-> NoTree]
    /\ writes = {}
    /\ sim = NoSim
    /\ reads = <<>>

\* the renumbering copy of run_partial_base applied to unit i's chunk
StageChunk(i) ==
    /\ submitted
    /\ pc[i] = "makedirs"
    /\ pc' = [pc EXCEPT ![i] = "staged"]
    /\ base' = [base EXCEPT ![units[i].output_path] =
                   [@ EXCEPT !.exists = TRUE,
                             !.shared = StageFiles(@, units[i].chunk)]]
    /\ UNCHANGED <<dss_dir, template, env, submitted, units, hist, writes, sim, reads>>

NextPartition ==
    \/ RunDistributedSimulations
    \/ \E i \in 1..Len(units) : StageChunk(i)

SpecPartition == InitPartition /\ [][NextPartition]_vars

-----------------------------------------------------------------------------
(* Spec: the units of one run_distributed_simulations call, run concurrently *)
(* by the scheduler's workers, on hosts and directories that may fail        *)

\* the pools whose units are run: none, one short chunk, a full chunk and more
ConcurrentSizes == {0, 2, CHUNK + MaxExtra}

\* a reference base whose shared folder holds containers of an earlier study
\* (one named like a staged file, one beyond any chunk) and a file of another
\* kind; and one without the study folder
StaleTemplate ==
    [shared |-> {File(Stem(PadWidth, 1), "dss"), File(Stem(PadWidth, 150), "dss"),
                 File(Stem(PadWidth, 1), "conf")},
     study |-> TRUE]
Templates == {StaleTemplate, [StaleTemplate EXCEPT !.study = FALSE]}

\* what a unit that never reached its rmtree left at b000001
LeftoverTree ==
    [exists |-> TRUE,
     shared |-> {[name |-> File(Stem(PadWidth, 120), "dss"),
                  from |-> [kind |-> "leftover", of |-> File(Stem(PadWidth, 120), "dss")]]},
     study |-> FALSE,
     simulation |-> "run"]

Hosts == [files : {{}, {"default"}}, home : {TRUE}, drive_c : BOOLEAN, results : {FALSE}]

\* routing_config['reservoir_list'], routing_config['variable_type_list']
reservoir_list == {"Baskatong"}
variable_type_list == {"Flow", "Elev"}

Init ==
    /\ \E n \in ConcurrentSizes :
          dss_dir = Listing([n |-> n, first |-> 1, gapAt |-> 0, gapLen |-> 1,
                             w |-> PadWidth, scrambled |-> FALSE])
    /\ template \in Templates
    /\ env \in Hosts
    /\ submitted = FALSE
    /\ units = <<>>
    /\ pc = <<>>
    /\ hist = <<>>
    /\ \E left \in BOOLEAN :
          base = [d \in AllBatchDirs |->
                     IF left /\ d = BatchDir(0) THEN LeftoverTree ELSE NoTree]
    /\ writes = {}
    /\ sim = NoSim
    /\ reads = <<>>

\* the paths a unit writes
TreePath(i) == [area |-> "02_Bases", batch |-> units[i].output_path.num.v, name |-> "tree"]
DriverPath == [area |-> "01_Programmes", batch |-> 0, name |-> "run_sim.py"]
\* the result tables of _save_simulation_values: one per reservoir and variable
ResultPaths == {[area |-> "03_Resultats", batch |-> 0, name |-> v] : v \in variable_type_list}

Wrote(i, paths) == writes' = writes \cup {[path |-> q, unit |-> i] : q \in paths}

\* unit i completes the statement at its position and moves to the next
Advance(i, entry) ==
    /\ pc' = [pc EXCEPT ![i] = After(pc[i])]
    /\ hist' = [hist EXCEPT ![i] = Append(@, entry)]

\* the statement at unit i's position raises: the exception leaves run_partial_base
Raise(i, entry) ==
    /\ pc' = [pc EXCEPT ![i] = "raised"]
    /\ hist' = [hist EXCEPT ![i] = Append(@, entry)]

\* if not os.path.isdir(output_path): try: os.makedirs(output_path) except ...
MakeDirs(i) ==
    LET d == units[i].output_path IN
    /\ pc[i] = "makedirs"
    /\ \/ /\ base[d].exists
          /\ Advance(i, "isdir")
          /\ UNCHANGED <<base, writes>>
       \/ /\ ~base[d].exists
          /\ Advance(i, "makedirs")
          /\ base' = [base EXCEPT ![d].exists = TRUE]
          /\ Wrote(i, {TreePath(i)})
       \/ /\ ~base[d].exists
          /\ \E errno \in {"EEXIST", "EACCES"} :
                IF makedirsHandler(errno) = "raise"
                THEN /\ Raise(i, IF errno = "EEXIST" THEN "raise:makedirs:EEXIST"
                                 ELSE "raise:makedirs:EACCES")
                     /\ UNCHANGED base
                ELSE /\ Advance(i, IF errno = "EEXIST" THEN "makedirs:EEXIST"
                                   ELSE "makedirs:EACCES")
                     \* EEXIST: another process has made the directory
                     /\ base' = [base EXCEPT ![d].exists = (errno = "EEXIST")]
          /\ UNCHANGED writes
    /\ UNCHANGED <<dss_dir, template, env, submitted, units, sim, reads>>

\* copy_tree(self.model_base_folder, output_path)
CopyTree(i) ==
    LET d == units[i].output_path IN
    /\ pc[i] = "copy_tree"
    /\ base' = [base EXCEPT ![d] = copy_tree(template, @)]
    /\ Advance(i, "copy_tree")
    /\ Wrote(i, {TreePath(i)})
    /\ UNCHANGED <<dss_dir, template, env, submitted, units, sim, reads>>

\* result = list(Path(output_path).rglob("study")); result[0]
Locate(i) ==
    /\ pc[i] = "locate"
    /\ IF base[units[i].output_path].study
       THEN Advance(i, "locate")
       ELSE Raise(i, "raise:locate")
    /\ UNCHANGED <<dss_dir, template, env, submitted, units, base, writes, sim, reads>>

\* the stale containers of the shared folder are removed
Remove(i) ==
    LET d == units[i].output_path IN
    /\ pc[i] = "remove"
    /\ base' = [base EXCEPT ![d].shared = RemoveStale(@)]
    /\ Advance(i, "remove")
    /\ Wrote(i, {TreePath(i)})
    /\ UNCHANGED <<dss_dir, template, env, submitted, units, sim, reads>>

\* the chunk's files are copied into the shared folder under their new names
Stage(i) ==
    LET d == units[i].output_path IN
    /\ pc[i] = "stage"
    /\ base' = [base EXCEPT ![d].shared = StageFiles(@, units[i].chunk)]
    /\ Advance(i, "stage")
    /\ Wrote(i, {TreePath(i)})
    /\ UNCHANGED <<dss_dir, template, env, submitted, units, sim, reads>>

\* shutil.copy2(<templates/empty.dss>, dss_filename_output)
Empty(i) ==
    LET d == units[i].output_path IN
    /\ pc[i] = "empty"
    /\ base' = [base EXCEPT ![d].simulation = "empty"]
    /\ Advance(i, "empty")
    /\ Wrote(i, {TreePath(i)})
    /\ UNCHANGED <<dss_dir, template, env, submitted, units, sim, reads>>

\* [_read_dss_values(...) for nom_BV in reservoir_list for alternative_name in ...]
Read(i) ==
    /\ pc[i] = "read"
    /\ Advance(i, "read")
    /\ reads' = [reads EXCEPT ![i] =
                    {[alternative_basename |-> alternative_names[k],
                      reservoir_id |-> nom_BV] :
                        nom_BV \in reservoir_list,
                        k \in 1..Len(alternative_names)}]
    /\ UNCHANGED <<dss_dir, template, env, submitted, units, base, writes, sim>>

\* output_path_windows = ('C:' + complete_output_path.split('drive_c')[1])...
\* self.run_sim(output_path_windows), up to the shell command it issues
RunSim(i) ==
    /\ pc[i] = "run_sim"
    /\ IF ~env.drive_c
       THEN /\ Raise(i, "raise:translate")
            /\ UNCHANGED writes
       ELSE LET r == run_sim("None", env) IN
            /\ Wrote(i, IF In("copy2", r.steps) THEN {DriverPath} ELSE {})
            /\ IF r.end # "return"
               THEN Raise(i, "raise:run_sim")
               ELSE IF In("subprocess.call", r.steps)
               THEN /\ pc' = [pc EXCEPT ![i] = "wine"]
                    /\ hist' = [hist EXCEPT ![i] = Append(@, "run_sim:call")]
               ELSE Advance(i, "run_sim:skip")
    /\ UNCHANGED <<dss_dir, template, env, submitted, units, base, sim, reads>>

\* subprocess.call returns: the executable has run against the staged base
WineExit(i) ==
    LET d == units[i].output_path IN
    /\ pc[i] = "wine"
    /\ base' = [base EXCEPT ![d].simulation = "run"]
    /\ Advance(i, "run_sim:return")
    /\ Wrote(i, {TreePath(i)})
    /\ UNCHANGED <<dss_dir, template, env, submitted, units, sim, reads>>

\* if not os.path.isdir(csv_output_path): try: os.makedirs(csv_output_path) ...
MkResults(i) ==
    /\ pc[i] = "mkresults"
    /\ \/ /\ env.results
          /\ Advance(i, "mkresults")
          /\ UNCHANGED env
       \/ /\ ~env.results
          /\ \E errno \in {"none", "EEXIST", "EACCES"} :
                IF errno # "none" /\ makedirsHandler(errno) = "raise"
                THEN /\ Raise(i, "raise:mkresults")
                     /\ UNCHANGED env
                ELSE /\ Advance(i, "mkresults")
                     /\ env' = [env EXCEPT !.results = (errno # "EACCES")]
    /\ UNCHANGED <<dss_dir, template, submitted, units, base, writes, sim, reads>>

\* _save_simulation_values(alternative_names, variable_type_list,
\*                         reservoir_list, base_dir, csv_output_path)
Extract(i) ==
    /\ pc[i] = "extract"
    /\ \/ /\ Advance(i, "extract")
          /\ Wrote(i, ResultPaths)
       \/ /\ Raise(i, "raise:extract")
          /\ UNCHANGED writes
    /\ UNCHANGED <<dss_dir, template, env, submitted, units, base, sim, reads>>

\* shutil.rmtree(output_path, ignore_errors=True)
Rmtree(i) ==
    LET d == units[i].output_path IN
    /\ pc[i] = "rmtree"
    /\ \E failed \in BOOLEAN :
          /\ base' = [base EXCEPT ![d] = rmtree(@, failed)]
          /\ Advance(i, IF failed THEN "rmtree:errors" ELSE "rmtree")
    /\ Wrote(i, {TreePath(i)})
    /\ UNCHANGED <<dss_dir, template, env, submitted, units, sim, reads>>

Next ==
    \/ RunDistributedSimulations
    \/ \E i \in 1..Len(units) : MakeDirs(i)
    \/ \E i \in 1..Len(units) : CopyTree(i)
    \/ \E i \in 1..Len(units) : Locate(i)
    \/ \E i \in 1..Len(units) : Remove(i)
    \/ \E i \in 1..Len(units) : Stage(i)
    \/ \E i \in 1..Len(units) : Empty(i)
    \/ \E i \in 1..Len(units) : Read(i)
    \/ \E i \in 1..Len(units) : RunSim(i)
    \/ \E i \in 1..Len(units) : WineExit(i)
    \/ \E i \in 1..Len(units) : MkResults(i)
    \/ \E i \in 1..Len(units) : Extract(i)
    \/ \E i \in 1..Len(units) : Rmtree(i)

Spec == Init /\ [][Next]_vars

-----------------------------------------------------------------------------
(* SpecRunSim: run_sim called on its own, with or without an executable path *)

ExePaths == {"default", "custom", "absent"}

InitRunSim ==
    /\ dss_dir = <<>>
    /\ template = EmptyTemplate
    /\ env \in [files : SUBSET ExePaths, home : BOOLEAN, drive_c : BOOLEAN,
                results : {FALSE}]
    /\ submitted = FALSE
    /\ units = <<>>
    /\ pc = <<>>
    /\ hist = <<>>
    /\ base = [d \in AllBatchDirs |-> NoTree]
    /\ writes = {}
    /\ \E a \in {"None", "custom", "absent"} :
          sim = [pc |-> "call", arg |-> a, steps |-> <<>>, end |-> "none"]
    /\ reads = <<>>

CallRunSim ==
    /\ sim.pc = "call"
    /\ LET r == run_sim(sim.arg, env)
       IN sim' = [pc |-> "ended", arg |-> sim.arg, steps |-> r.steps, end |-> r.end]
    /\ UNCHANGED <<dss_dir, template, env, submitted, units, pc, base, hist, writes,
                   reads>>

NextRunSim == CallRunSim

SpecRunSim == InitRunSim /\ [][NextRunSim]_vars

-----------------------------------------------------------------------------
(* The claims *)

\* the container files of the input directory
PoolFiles == {dss_dir[k] : k \in {k \in 1..Len(dss_dir) : dss_dir[k].ext = "dss"}}
PoolSize == Cardinality(PoolFiles)

\* the file at 0-based position q of the chunks laid end to end, chunk j
\* (0-based) holding positions 100j .. 100j + 99
AtPosition(q) == units[(q \div 100) + 1].chunk[(q % 100) + 1]

\* the position of step x in a unit's history, 0 when it has not happened
Pos(h, x) == IF In(x, h) THEN CHOOSE k \in 1..Len(h) : h[k] = x ELSE 0
\* step b has happened only after step a
Precedes(h, a, b) == In(b, h) => (In(a, h) /\ Pos(h, a) < Pos(h, b))

\* the name made of the 7-digit zero-padded m and '.dss'
SevenDigits(m) == [stem |-> [neg |-> FALSE, w |-> 7, v |-> m], ext |-> "dss"]

\* the '.dss' entries of a shared folder
Containers(tree) == {e \in tree.shared : e.name.ext = "dss"}

\* the indices of a chunk's files go up by one from file to file
Consecutive(chunk) ==
    \A k \in 1..(Len(chunk) - 1) : chunk[k + 1].stem.v = chunk[k].stem.v + 1

\* C1: a pool of N container files is partitioned into exactly ceil(N/100)
\* chunks; chunk j (0-based) is the slice of name-sorted positions
\* 100j .. min(100j + 100, N) - 1: every chunk has 100 files except possibly
\* the last, which has N mod 100 (100 when N is a positive multiple of 100);
\* no chunk is empty, and N = 0 yields no chunk and no unit.
C1_Partition ==
    submitted =>
        LET N == PoolSize
            n == Len(units)
        IN /\ n = (N + 99) \div 100
           /\ N = 0 => n = 0
           /\ \A j \in 1..n :
                 /\ Len(units[j].chunk) >= 1
                 /\ Len(units[j].chunk) =
                       IF j < n THEN 100
                       ELSE IF N % 100 = 0 THEN 100 ELSE N % 100
                 /\ Len(units[j].chunk) = Min(100 * (j - 1) + 100, N) - 100 * (j - 1)
           \* end to end the chunks are the pool in name order
           /\ {AtPosition(q) : q \in 0..(N - 1)} = PoolFiles
           /\ \A q \in 0..(N - 2) : PathLess(AtPosition(q), AtPosition(q + 1))

C1_Witness ==
    /\ submitted
    /\ Len(units) = 3
    /\ Len(units[1].chunk) = 100
    /\ Len(units[3].chunk) = 1
    /\ Len(dss_dir) > PoolSize

\* C2: for a chunk whose first file has index k, the file with index k + j
\* (j >= 0) is copied into the shared folder under the 7-digit zero-padded
\* j + 1 and '.dss'; the order of the files is the order of their new names,
\* and every staged name has exactly 7 digits.
C2_Renumbering ==
    \A i \in 1..Len(units) :
        pc[i] = "staged" =>
            LET chunk == units[i].chunk
                k == chunk[1].stem.v
                tree == base[units[i].output_path]
            IN /\ \A p \in 1..Len(chunk) :
                     chunk[p].stem.v >= k =>
                        [name |-> SevenDigits(chunk[p].stem.v - k + 1),
                         from |-> [kind |-> "chunk", of |-> chunk[p]]] \in tree.shared
               /\ \A p \in 1..(Len(chunk) - 1) :
                     /\ chunk[p].stem.v < chunk[p + 1].stem.v
                     /\ PathLess(SevenDigits(chunk[p].stem.v - k + 1),
                                 SevenDigits(chunk[p + 1].stem.v - k + 1))
               /\ \A e \in tree.shared : e.name.stem.w = 7 /\ ~e.name.stem.neg

C2_Witness ==
    /\ Len(units) >= 2
    /\ pc[2] = "staged"
    /\ units[2].chunk[1].stem = [neg |-> FALSE, w |-> 4, v |-> 101]
    /\ Len(units[2].chunk) = 100
    /\ [name |-> SevenDigits(100),
        from |-> [kind |-> "chunk", of |-> File(Stem(4, 200), "dss")]]
           \in base[units[2].output_path].shared

\* C3 as stated: whatever indices the pool's file names carry, a chunk of L
\* files is staged as exactly 0000001.dss .. the 7-digit L, with no gap and
\* no two files under one name.
C3_AlwaysContiguous ==
    \A i \in 1..Len(units) :
        pc[i] = "staged" =>
            LET L == Len(units[i].chunk)
                tree == base[units[i].output_path]
            IN /\ {e.name : e \in tree.shared} = {SevenDigits(m) : m \in 1..L}
               /\ Cardinality(tree.shared) = L

\* C3 as amended: a chunk whose files carry consecutive indices k, k + 1, ...
\* (whatever k and the chunk's position) is staged as exactly 0000001.dss ..
\* the 7-digit L, no gap and no two files under one name; in any chunk the
\* file of index m is staged as m - k + 1, so a hole in the indices is a hole
\* of the same size in the staged names.
C3_ContiguousWhenConsecutive ==
    \A i \in 1..Len(units) :
        pc[i] = "staged" =>
            LET chunk == units[i].chunk
                L == Len(chunk)
                k == chunk[1].stem.v
                tree == base[units[i].output_path]
                staged == {e.name : e \in tree.shared}
            IN /\ Cardinality(tree.shared) = L
               /\ staged = {SevenDigits(chunk[p].stem.v - k + 1) : p \in 1..L}
               /\ Consecutive(chunk) <=> staged = {SevenDigits(m) : m \in 1..L}

C3_Witness ==
    /\ Len(units) = 3
    /\ pc[2] = "staged"
    /\ pc[3] = "staged"
    /\ Consecutive(units[2].chunk)
    /\ units[2].chunk[1].stem.v = 102
    /\ {e.name : e \in base[units[2].output_path].shared}
          = {SevenDigits(m) : m \in 1..100}
    /\ {e.name : e \in base[units[3].output_path].shared} = {SevenDigits(1)}

\* C4: the unit built for the i-th chunk (1-based) gets the directory 'b' +
\* the 6-digit zero-padded i, and no two units of a call get the same one.
C4_BatchDirs ==
    submitted =>
        /\ \A i \in 1..Len(units) :
              units[i].output_path =
                 [prefix |-> "b", num |-> [neg |-> FALSE, w |-> 6, v |-> i]]
        /\ \A i, j \in 1..Len(units) :
              i # j => units[i].output_path # units[j].output_path

C4_Witness ==
    /\ submitted
    /\ Len(units) = 3
    /\ units[3].output_path = [prefix |-> "b", num |-> [neg |-> FALSE, w |-> 6, v |-> 3]]

\* C5: in any interleaving of the units of one call no filesystem path is
\* written by two different units.
C5_NoPathWrittenTwice ==
    \A a, b \in writes : a.path = b.path => a.unit = b.unit

C7_StepOrder ==
    \A i \in 1..Len(units) :
        LET h == hist[i]
            invoked == IF In("run_sim:call", h) THEN "run_sim:call"
                       ELSE IF In("run_sim:skip", h) THEN "run_sim:skip"
                       ELSE "raise:run_sim"
            returned == IF In("run_sim:return", h) THEN "run_sim:return"
                        ELSE "run_sim:skip"
            extraction == IF In("extract", h) THEN "extract" ELSE "raise:extract"
            deletion == IF In("rmtree", h) THEN "rmtree" ELSE "rmtree:errors"
        IN /\ Precedes(h, "copy_tree", "remove")
           /\ Precedes(h, "remove", "stage")
           /\ Precedes(h, "stage", "empty")
           /\ Precedes(h, "empty", invoked)
           /\ Precedes(h, "run_sim:call", "run_sim:return")
           /\ Precedes(h, returned, extraction)
           /\ Precedes(h, "extract", deletion)
           /\ pc[i] = "wine" => base[units[i].output_path].simulation = "empty"

C7_Witness ==
    \E i \in 1..Len(units) :
        /\ pc[i] = "done"
        /\ hist[i] = <<"makedirs", "copy_tree", "locate", "remove", "stage", "empty",
                       "read", "run_sim:call", "run_sim:return", "mkresults",
                       "extract", "rmtree">>

C9_MakedirsFailures ==
    \A i \in 1..Len(units) :
        LET h == hist[i]
            tree == base[units[i].output_path]
        IN /\ ~In("raise:makedirs:EEXIST", h)
           /\ ~In("makedirs:EACCES", h)
           /\ In("makedirs:EEXIST", h) =>
                 /\ h[1] = "makedirs:EEXIST"
                 /\ IF Len(h) = 1 THEN pc[i] = "copy_tree" ELSE h[2] = "copy_tree"
           /\ In("raise:makedirs:EACCES", h) =>
                 /\ h = <<"raise:makedirs:EACCES">>
                 /\ pc[i] = "raised"
                 /\ tree = NoTree

C9_Witness ==
    /\ Len(units) = 2
    /\ hist[1] = <<"raise:makedirs:EACCES">>
    /\ Len(hist[2]) >= 5
    /\ hist[2][1] = "makedirs:EEXIST"
    /\ hist[2][2] = "copy_tree"
    /\ In("stage", hist[2])

C11_ReadsOnlyStaged ==
    \A i \in 1..Len(units) :
        pc[i] = "run_sim" =>
            LET L == Len(units[i].chunk)
                staged == {e.name : e \in Containers(base[units[i].output_path])}
                handed == {c.alternative_basename : c \in reads[i]}
            IN /\ reads[i] = {[alternative_basename |-> SevenDigits(m),
                               reservoir_id |-> nom_BV] :
                                 nom_BV \in reservoir_list, m \in 1..L}
               /\ Cardinality(handed) <= LastAlternative
               /\ handed \subseteq staged

====
